---------------------------- MODULE Spec2Model ----------------------------
(* The borrow ledger of the book management system: the borrows table and  *)
(* the request handlers that read and write it (borrow_book, return_book,  *)
(* create_review's borrow check, check_book_availability,                  *)
(* get_borrow_history) and the mark_overdue_borrows job, as listed in      *)
(* ARCHITECTURE.md.  Every handler runs in its own database session; a     *)
(* handler is a sequence of awaited statements, and the statements of      *)
(* concurrent handlers interleave.  One action models one awaited          *)
(* statement together with the synchronous code that follows it.           *)
EXTENDS Integers, FiniteSets, Sequences, TLC

(* ------------------------------ bounds -------------------------------- *)
\* the clock runs over 0..MaxTime (days)
MaxTime == 1
\* at most MaxCalls requests and job runs are started
MaxCalls == 3

\* request slots: the handlers that can be in flight at the same time
Procs == {1, 2}
\* authenticated users (current_user.id)
Users == {1, 2}
\* rows of the books table when the system starts
Catalog == {1, 2}
\* book ids a request may carry: the catalog and one unknown id
BookIds == Catalog \cup {3}

(* ---------------------------- program constants ----------------------- *)
\* return_date TIMESTAMP (nullable): NULL
NULL == -1
\* loan_period_days values a request may carry
LoanPeriods == {0, 1}

ACTIVE == "active"
RETURNED == "returned"
OVERDUE == "overdue"
BorrowStatus == {ACTIVE, RETURNED, OVERDUE}

VARIABLES borrows, next_id, now, req, job, started, books

\* the React client: localStorage, the state of AuthProvider, the context
\* value of its last render, and the position of each of its async functions
VARIABLES access_token, refresh_token, user, loading, value, loadUser, login, register, event

\* window.location.href as the interceptor leaves it, and the status of the
\* failed response the last step handled
VARIABLES href, rejection

\* the state of the mounted page components, one record a component
VARIABLES RegisterPage, BookDetailPage, BooksPage

pages == <<RegisterPage, BookDetailPage, BooksPage>>

frontend == <<access_token, refresh_token, user, loading, value, loadUser, login, register, event,
              href, rejection, pages>>

vars == <<borrows, next_id, now, req, job, started, books, frontend>>

(* ------------------------------ queries ------------------------------- *)
\* Result.scalar_one_or_none(): the row, None, or MultipleResultsFound
NoRow == 0
ManyRows == -2
ScalarOneOrNone(rows) ==
    IF rows = {} THEN NoRow
    ELSE IF Cardinality(rows) = 1 THEN (CHOOSE r \in rows : TRUE).id
    ELSE ManyRows

\* select(Borrow).where(book_id == b, status == ACTIVE)
ActiveBorrowsOfBook(b) ==
    {r \in borrows : r.book_id = b /\ r.status = ACTIVE}

\* select(Borrow).where(user_id == u, book_id == b, status == ACTIVE)
ActiveBorrowsOfUserBook(u, b) ==
    {r \in borrows : r.user_id = u /\ r.book_id = b /\ r.status = ACTIVE}

\* select(Borrow).where(user_id == u, book_id == b, status in [ACTIVE, OVERDUE])
OpenBorrowsOfUserBook(u, b) ==
    {r \in borrows : r.user_id = u /\ r.book_id = b /\ r.status \in {ACTIVE, OVERDUE}}

\* select(Borrow).where(user_id == u, book_id == b)
BorrowsOfUserBook(u, b) ==
    {r \in borrows : r.user_id = u /\ r.book_id = b}

\* Borrow.calculate_due_date(borrow_date, loan_period_days)
CalculateDueDate(borrow_date, loan_period_days) ==
    borrow_date + loan_period_days

\* Borrow(user_id, book_id, borrow_date, due_date, status=ACTIVE)
NewBorrow(id, u, b, borrow_date, loan_period_days) ==
    [id |-> id, user_id |-> u, book_id |-> b, borrow_date |-> borrow_date,
     due_date |-> CalculateDueDate(borrow_date, loan_period_days),
     return_date |-> NULL, status |-> ACTIVE]

(* ------------------------------ requests ------------------------------ *)
\* a request slot with no handler in flight and no response yet
Idle ==
    [op |-> "none", pc |-> "done", user_id |-> 0, book_id |-> 0, loan |-> 0,
     row |-> NoRow, ts |-> 0, result |-> "none"]

\* the database and the server when the system starts
LedgerInit ==
    /\ borrows = {}
    /\ next_id = 1
    /\ now = 0
    /\ req = [p \in Procs |-> Idle]
    /\ job = [pc |-> "idle", rows |-> {}]
    /\ started = 0
    /\ books = Catalog

\* useState(null), useState(true): the state of AuthProvider at its first render
NullUser == "null"
\* no failed response
NoFailure == 0
NoToken == "null"

\* the value of AuthContext.Provider as one render computes it
ContextValue(u, l, token) ==
    [user |-> u, loading |-> l,
     isAuthenticated |-> (u # NullUser) \/ (token # NoToken),
     isAdmin |-> (u = "admin")]

\* no browser session: empty localStorage, AuthProvider not yet mounted
\* a component that is not mounted
Unmounted == [mounted |-> FALSE]

NoPages ==
    /\ RegisterPage = Unmounted
    /\ BookDetailPage = Unmounted
    /\ BooksPage = Unmounted

NoProvider ==
    /\ access_token = NoToken /\ refresh_token = NoToken
    /\ user = NullUser /\ loading = TRUE
    /\ value = ContextValue(NullUser, TRUE, NoToken)
    /\ loadUser = "off" /\ login = "idle" /\ register = "idle" /\ event = "none"
    /\ href = "/" /\ rejection = NoFailure

NoClient ==
    NoProvider /\ NoPages

Init ==
    /\ LedgerInit
    /\ NoClient

\* the response of a handler: the request it answers, the row it returns
\* (return new_borrow / return borrow) and the outcome
Response(r, row, result) ==
    [Idle EXCEPT !.op = r.op, !.user_id = r.user_id, !.book_id = r.book_id,
                 !.row = row, !.result = result]

\* raise HTTPException(...) or an uncaught exception: the handler ends
\* without having written
Raise(p, result) ==
    /\ req' = [req EXCEPT ![p] = Response(req[p], NoRow, result)]
    /\ UNCHANGED <<borrows, next_id>>

(* ------------------------------ borrow_book --------------------------- *)
\* mutant of BorrowCheckBook: the 404 check is lost
BorrowCheckBookNoLookup(p, u, b, l) ==
    /\ req[p].pc = "done"
    /\ started < MaxCalls
    /\ started' = started + 1
    /\ req' = [req EXCEPT ![p] = [Idle EXCEPT !.op = "borrow", !.user_id = u, !.book_id = b,
                                              !.loan = l, !.pc = "check_available"]]
    /\ UNCHANGED <<borrows, next_id, now, job, books, frontend>>

\* step 1: the request arrives and the book is looked up
BorrowCheckBook(p, u, b, l) ==
    /\ req[p].pc = "done"
    /\ started < MaxCalls
    /\ started' = started + 1
    /\ LET r == [Idle EXCEPT !.op = "borrow", !.user_id = u, !.book_id = b, !.loan = l,
                             !.pc = "check_available"]
       IN  req' = [req EXCEPT ![p] =
                     IF b \in books THEN r ELSE Response(r, NoRow, "not_found")]
    /\ UNCHANGED <<borrows, next_id, now, job, books, frontend>>

\* mutant of BorrowBookLookupFails: the failed lookup is taken for "no row"
BorrowBookLookupFailsAsNone(p, u, b) ==
    /\ req[p].pc = "done"
    /\ started < MaxCalls
    /\ started' = started + 1
    /\ req' = [req EXCEPT ![p] =
                 Response([Idle EXCEPT !.op = "borrow", !.user_id = u, !.book_id = b],
                          NoRow, "not_found")]
    /\ UNCHANGED <<borrows, next_id, now, job, books, frontend>>

\* step 1 when the database fails: await db.execute(select(Book)...) raises,
\* nothing catches the exception and the request ends with 500
BorrowBookLookupFails(p, u, b) ==
    /\ req[p].pc = "done"
    /\ started < MaxCalls
    /\ started' = started + 1
    /\ req' = [req EXCEPT ![p] =
                 Response([Idle EXCEPT !.op = "borrow", !.user_id = u, !.book_id = b],
                          NoRow, "server_error")]
    /\ UNCHANGED <<borrows, next_id, now, job, books, frontend>>

\* steps 2 and 3 when the database fails: the select on borrows raises
BorrowQueryFails(p) ==
    /\ req[p].op = "borrow" /\ req[p].pc \in {"check_available", "check_user"}
    /\ Raise(p, "server_error")
    /\ UNCHANGED <<now, job, started, books, frontend>>

\* step 2: no active borrow of the book
BorrowCheckAvailable(p) ==
    /\ req[p].op = "borrow" /\ req[p].pc = "check_available"
    /\ LET found == ScalarOneOrNone(ActiveBorrowsOfBook(req[p].book_id))
       IN  IF found = ManyRows THEN Raise(p, "server_error")
           ELSE IF found # NoRow THEN Raise(p, "conflict")
           ELSE /\ req' = [req EXCEPT ![p].pc = "check_user"]
                /\ UNCHANGED <<borrows, next_id>>
    /\ UNCHANGED <<now, job, started, books, frontend>>

\* step 3: no active borrow of the book by this user; then the new row is
\* built (borrow_date = utcnow()) and waits for the commit
BorrowCheckUser(p) ==
    /\ req[p].op = "borrow" /\ req[p].pc = "check_user"
    /\ LET found == ScalarOneOrNone(ActiveBorrowsOfUserBook(req[p].user_id, req[p].book_id))
       IN  IF found = ManyRows THEN Raise(p, "server_error")
           ELSE IF found # NoRow THEN Raise(p, "conflict")
           ELSE /\ req' = [req EXCEPT ![p].pc = "commit", ![p].ts = now]
                /\ UNCHANGED <<borrows, next_id>>
    /\ UNCHANGED <<now, job, started, books, frontend>>

\* step 4: db.add(new_borrow); commit; refresh.  The INSERT of a row whose
\* book is gone violates fk_book: the commit raises and nothing is written
BorrowCommit(p) ==
    /\ req[p].op = "borrow" /\ req[p].pc = "commit"
    /\ IF req[p].book_id \in books
       THEN /\ borrows' = borrows \cup
                  {NewBorrow(next_id, req[p].user_id, req[p].book_id, req[p].ts, req[p].loan)}
            /\ next_id' = next_id + 1
            /\ req' = [req EXCEPT ![p] = Response(req[p], next_id, "created")]
       ELSE Raise(p, "server_error")
    /\ UNCHANGED <<now, job, started, books, frontend>>

(* ------------------------------ return_book --------------------------- *)
\* mutant of Returned: the status assignment is lost
ReturnedDateOnly(r, t) ==
    [r EXCEPT !.return_date = t]

\* mutant of Returned: the return also moves the due_date
ReturnedMovesDueDate(r, t) ==
    [r EXCEPT !.return_date = t, !.status = RETURNED, !.due_date = t + 1]

\* borrow.return_date = utcnow(); borrow.status = RETURNED
Returned(r, t) ==
    [r EXCEPT !.return_date = t, !.status = RETURNED]

\* step 1: the request arrives and the open borrow of (user, book) is loaded;
\* the loaded object gets its return_date and waits for the commit
ReturnFind(p, u, b) ==
    /\ req[p].pc = "done"
    /\ started < MaxCalls
    /\ started' = started + 1
    /\ LET r == [Idle EXCEPT !.op = "return", !.user_id = u, !.book_id = b]
           found == ScalarOneOrNone(OpenBorrowsOfUserBook(u, b))
       IN  req' = [req EXCEPT ![p] =
                     IF found = ManyRows THEN Response(r, NoRow, "server_error")
                     ELSE IF found = NoRow THEN Response(r, NoRow, "not_found")
                     ELSE [r EXCEPT !.pc = "commit", !.row = found, !.ts = now]]
    /\ UNCHANGED <<borrows, next_id, now, job, books, frontend>>

\* step 2: commit (UPDATE borrows SET return_date, status WHERE id = row); refresh.
\* An UPDATE that matches no row (the row was deleted) raises and writes nothing
ReturnCommit(p) ==
    /\ req[p].op = "return" /\ req[p].pc = "commit"
    /\ IF \E r \in borrows : r.id = req[p].row
       THEN /\ borrows' = {IF r.id = req[p].row THEN Returned(r, req[p].ts) ELSE r : r \in borrows}
            /\ req' = [req EXCEPT ![p] = Response(req[p], req[p].row, "ok")]
            /\ UNCHANGED next_id
       ELSE Raise(p, "server_error")
    /\ UNCHANGED <<now, job, started, books, frontend>>

(* --------------------------- mark_overdue_borrows --------------------- *)
\* mutant of OverdueQuery: the due_date filter is lost
OverdueQueryAllActive ==
    {r.id : r \in {x \in borrows : x.status = ACTIVE}}

\* session.query(Borrow).filter(status == ACTIVE, due_date < utcnow()).all()
OverdueQuery ==
    {r.id : r \in {x \in borrows : x.status = ACTIVE /\ x.due_date < now}}

\* the job starts and loads the rows to mark
MarkOverdueQuery ==
    /\ job.pc = "idle"
    /\ started < MaxCalls
    /\ started' = started + 1
    /\ job' = [pc |-> "commit", rows |-> OverdueQuery]
    /\ UNCHANGED <<borrows, next_id, now, req, books, frontend>>

\* for borrow in overdue_borrows: borrow.status = OVERDUE; session.commit().
\* The flush raises when a loaded row is gone, and the transaction writes nothing
MarkOverdueCommit ==
    /\ job.pc = "commit"
    /\ borrows' = IF job.rows \subseteq {r.id : r \in borrows}
                  THEN {IF r.id \in job.rows THEN [r EXCEPT !.status = OVERDUE] ELSE r : r \in borrows}
                  ELSE borrows
    /\ job' = [pc |-> "idle", rows |-> {}]
    /\ UNCHANGED <<next_id, now, req, started, books, frontend>>

(* ------------------------------ books --------------------------------- *)
\* DELETE /api/v1/books/{id}: the row of the book is deleted, and with it
\* every row of borrows that references it (book_id ... ON DELETE CASCADE)
DeleteBook(b) ==
    /\ b \in books
    /\ started < MaxCalls
    /\ started' = started + 1
    /\ books' = books \ {b}
    /\ borrows' = {r \in borrows : r.book_id # b}
    /\ UNCHANGED <<next_id, now, req, job, frontend>>

\* the clock (datetime.utcnow()) advances
Tick ==
    /\ now < MaxTime
    /\ now' = now + 1
    /\ UNCHANGED <<borrows, next_id, req, job, started, books, frontend>>

Next ==
    \/ \E p \in Procs, u \in Users, b \in BookIds, l \in LoanPeriods : BorrowCheckBook(p, u, b, l)
    \/ \E p \in Procs, u \in Users, b \in BookIds : BorrowBookLookupFails(p, u, b)
    \/ \E p \in Procs : BorrowQueryFails(p)
    \/ \E p \in Procs : BorrowCheckAvailable(p)
    \/ \E p \in Procs : BorrowCheckUser(p)
    \/ \E p \in Procs : BorrowCommit(p)
    \/ \E p \in Procs, u \in Users, b \in BookIds : ReturnFind(p, u, b)
    \/ \E p \in Procs : ReturnCommit(p)
    \/ MarkOverdueQuery
    \/ MarkOverdueCommit
    \/ \E b \in Catalog : DeleteBook(b)
    \/ Tick

Spec == Init /\ [][Next]_vars

(* ------------------------------ read endpoints ------------------------ *)
\* Borrow.is_overdue
IsOverdue(r) ==
    IF r.return_date # NULL THEN FALSE ELSE now > r.due_date

\* check_book_availability: the two counts and the summary
CheckBookAvailability(b) ==
    LET active_borrows == Cardinality(ActiveBorrowsOfBook(b))
        total_borrows == Cardinality({r \in borrows : r.book_id = b})
    IN  [book_id |-> b, is_available |-> (active_borrows = 0),
         active_borrows |-> active_borrows, total_borrows |-> total_borrows]

\* check_book_availability: the response.  The handler reads only borrows and
\* has no raise: it answers 200 with the summary for every book_id
AvailabilityResponse(b) ==
    [status |-> "ok", body |-> CheckBookAvailability(b)]

\* get_borrow_history: the statistics over the borrows of the user
GetBorrowHistory(u) ==
    LET mine == {r \in borrows : r.user_id = u}
    IN  [total_borrows |-> Cardinality(mine),
         active_borrows |-> Cardinality({r \in mine : r.status = ACTIVE}),
         returned_borrows |-> Cardinality({r \in mine : r.status = RETURNED}),
         overdue_borrows |-> Cardinality({r \in mine : IsOverdue(r)})]

\* get_borrow_history: the rows the query can return, in order.
\* select(Borrow).where(user_id == u).order_by(borrow_date.desc()) fixes the
\* order of rows with different borrow_date only; rows with the same
\* borrow_date come in whatever order the database produces
BorrowHistoryOrders(u) ==
    LET mine == {r \in borrows : r.user_id = u}
        n == Cardinality(mine)
    IN  {h \in [1..n -> mine] :
            /\ \A i, j \in 1..n : i # j => h[i] # h[j]
            /\ \A i, j \in 1..n : i < j => h[i].borrow_date >= h[j].borrow_date}

\* the row with id x comes before the row with id y in the list h
ComesBefore(h, x, y) ==
    \E i, j \in DOMAIN h : i < j /\ h[i].id = x /\ h[j].id = y

\* create_review, step 1: the borrow check that guards review creation
CreateReviewCheck(u, b) ==
    LET found == ScalarOneOrNone(BorrowsOfUserBook(u, b))
    IN  IF found = ManyRows THEN "server_error"
        ELSE IF found = NoRow THEN "forbidden"
        ELSE "allowed"

(* ------------------------------ AuthProvider -------------------------- *)
ledger == <<borrows, next_id, now, req, job, started, books>>

\* role: 'admin' | 'user'
Roles == {"user", "admin"}
\* a token left in localStorage by an earlier session, a token of a login response
StoredToken == "stored"
IssuedToken == "issued"
\* status of a failed response: 401, or any other failure
UNAUTHORIZED == 401
OTHER_FAILURE == 500
Failures == {UNAUTHORIZED, OTHER_FAILURE}

\* the page is opened: localStorage holds whatever an earlier session left,
\* AuthProvider has rendered once and its effect has not yet run
AuthInit ==
    /\ LedgerInit
    /\ access_token \in {NoToken, StoredToken}
    /\ refresh_token \in {NoToken, StoredToken}
    /\ user = NullUser /\ loading = TRUE
    /\ value = ContextValue(NullUser, TRUE, access_token)
    /\ loadUser = "start" /\ login = "idle" /\ register = "idle" /\ event = "none"
    /\ href = "/" /\ rejection = NoFailure
    /\ NoPages

\* setUser / setLoading followed by the render they cause.  A setter called
\* with the value the state already has (setUser(null) while user is null)
\* schedules no render, and the context keeps the value of the last render
SetState(u, l) ==
    /\ user' = u
    /\ loading' = l
    /\ value' = IF u = NullUser /\ user = NullUser /\ l = loading
                THEN value
                ELSE ContextValue(u, l, access_token')

\* mutant of Intercepted: the 401 branch removes nothing
NotIntercepted(status, token) ==
    token

\* the response interceptor: a 401 removes both tokens before the caller's
\* catch runs; any other failure is passed on
Intercepted(status, token) ==
    IF status = UNAUTHORIZED THEN NoToken ELSE token

\* the response interceptor, the redirect: window.location.href = '/login'
\* on a 401; the error is rejected to the caller in every case
ResponseError(status) ==
    /\ rejection' = status
    /\ href' = IF status = UNAUTHORIZED THEN "/login" ELSE href

\* a step that handles no failed response
NoResponseError ==
    /\ rejection' = NoFailure
    /\ UNCHANGED href

\* mutant of LoadUserStart: without a token the effect ends with loading still true
LoadUserStartKeepsLoading ==
    /\ loadUser = "start"
    /\ event' = "loadUser"
    /\ NoResponseError
    /\ loadUser' = IF access_token # NoToken THEN "fetch" ELSE "no_token"
    /\ UNCHANGED <<access_token, refresh_token, user, loading, value, login, register, ledger, pages>>

\* useEffect, loadUser up to its await
LoadUserStart ==
    /\ loadUser = "start"
    /\ event' = "loadUser"
    /\ NoResponseError
    /\ UNCHANGED <<access_token, refresh_token, login, register, ledger, pages>>
    /\ IF access_token # NoToken
       THEN /\ loadUser' = "fetch"
            /\ UNCHANGED <<user, loading, value>>
       ELSE /\ loadUser' = "no_token"
            /\ SetState(user, FALSE)

\* loadUser: getCurrentUser resolved
LoadUserResolved(userData) ==
    /\ loadUser = "fetch"
    /\ event' = "loadUser"
    /\ NoResponseError
    /\ loadUser' = "resolved"
    /\ UNCHANGED <<access_token, refresh_token, login, register, ledger, pages>>
    /\ SetState(userData, FALSE)

\* mutant of LoadUserRejected: the refresh_token is left in localStorage
LoadUserRejectedKeepsRefresh(status) ==
    /\ loadUser = "fetch"
    /\ event' = "loadUser"
    /\ ResponseError(status)
    /\ loadUser' = "rejected"
    /\ access_token' = NoToken
    /\ refresh_token' = Intercepted(status, refresh_token)
    /\ SetState(user, FALSE)
    /\ UNCHANGED <<login, register, ledger, pages>>

\* loadUser: getCurrentUser rejected, the catch block
LoadUserRejected(status) ==
    /\ loadUser = "fetch"
    /\ event' = "loadUser"
    /\ ResponseError(status)
    /\ loadUser' = "rejected"
    /\ access_token' = NoToken
    /\ refresh_token' = NoToken
    /\ SetState(user, FALSE)
    /\ UNCHANGED <<login, register, ledger, pages>>

\* login is called: apiService.login is sent
LoginStart ==
    /\ loadUser # "start"
    /\ login \notin {"token", "fetch"}
    /\ login' = "token"
    /\ event' = "login"
    /\ NoResponseError
    /\ UNCHANGED <<access_token, refresh_token, user, loading, value, loadUser, register, ledger, pages>>

\* mutant of LoginTokensResolved: the refresh_token is not stored
LoginTokensResolvedNoRefresh ==
    /\ login = "token"
    /\ login' = "fetch"
    /\ event' = "login"
    /\ NoResponseError
    /\ access_token' = IssuedToken
    /\ UNCHANGED <<refresh_token, user, loading, value, loadUser, register, ledger, pages>>

\* login: the tokens arrived and are stored; getCurrentUser is sent
LoginTokensResolved ==
    /\ login = "token"
    /\ login' = "fetch"
    /\ event' = "login"
    /\ NoResponseError
    /\ access_token' = IssuedToken
    /\ refresh_token' = IssuedToken
    /\ UNCHANGED <<user, loading, value, loadUser, register, ledger, pages>>

\* login: apiService.login rejected; the error is thrown again
LoginTokensRejected(status) ==
    /\ login = "token"
    /\ login' = "rejected"
    /\ event' = "login"
    /\ ResponseError(status)
    /\ access_token' = Intercepted(status, access_token)
    /\ refresh_token' = Intercepted(status, refresh_token)
    /\ UNCHANGED <<user, loading, value, loadUser, register, ledger, pages>>

\* login: getCurrentUser resolved
LoginUserResolved(userData) ==
    /\ login = "fetch"
    /\ login' = "resolved"
    /\ event' = "login"
    /\ NoResponseError
    /\ UNCHANGED <<access_token, refresh_token, loadUser, register, ledger, pages>>
    /\ SetState(userData, loading)

\* login: getCurrentUser rejected; the error is thrown again
LoginUserRejected(status) ==
    /\ login = "fetch"
    /\ login' = "rejected"
    /\ event' = "login"
    /\ ResponseError(status)
    /\ access_token' = Intercepted(status, access_token)
    /\ refresh_token' = Intercepted(status, refresh_token)
    /\ UNCHANGED <<user, loading, value, loadUser, register, ledger, pages>>

\* register is called: apiService.register is sent
RegisterStart ==
    /\ loadUser # "start"
    /\ register # "sent"
    /\ register' = "sent"
    /\ event' = "register"
    /\ NoResponseError
    /\ UNCHANGED <<access_token, refresh_token, user, loading, value, loadUser, login, ledger, pages>>

\* register: the new user arrived
RegisterResolved(newUser) ==
    /\ register = "sent"
    /\ register' = "resolved"
    /\ event' = "register"
    /\ NoResponseError
    /\ UNCHANGED <<access_token, refresh_token, loadUser, login, ledger, pages>>
    /\ SetState(newUser, loading)

\* register: apiService.register rejected; the error is thrown again
RegisterRejected(status) ==
    /\ register = "sent"
    /\ register' = "rejected"
    /\ event' = "register"
    /\ ResponseError(status)
    /\ access_token' = Intercepted(status, access_token)
    /\ refresh_token' = Intercepted(status, refresh_token)
    /\ UNCHANGED <<user, loading, value, loadUser, login, ledger, pages>>

\* logout
Logout ==
    /\ loadUser # "start"
    /\ event' = "logout"
    /\ NoResponseError
    /\ access_token' = NoToken
    /\ refresh_token' = NoToken
    /\ UNCHANGED <<loadUser, login, register, ledger, pages>>
    /\ SetState(NullUser, loading)

\* the current-user fetch of loadUser settles
LoadUserSettles ==
    \/ \E userData \in Roles : LoadUserResolved(userData)
    \/ \E status \in Failures : LoadUserRejected(status)

AuthNext ==
    \/ LoadUserStart
    \/ LoadUserSettles
    \/ LoginStart
    \/ LoginTokensResolved
    \/ \E status \in Failures : LoginTokensRejected(status)
    \/ \E userData \in Roles : LoginUserResolved(userData)
    \/ \E status \in Failures : LoginUserRejected(status)
    \/ RegisterStart
    \/ \E newUser \in Roles : RegisterResolved(newUser)
    \/ \E status \in Failures : RegisterRejected(status)
    \/ Logout

AuthSpec == AuthInit /\ [][AuthNext]_vars

\* the effect runs after the first render, and the fetch settles
AuthLive == AuthSpec /\ WF_vars(LoadUserStart) /\ WF_vars(LoadUserSettles)

(* -------------------------------- claims ------------------------------ *)

\* C1: for every book at most one BorrowRecord has status Active, also when
\* borrow calls for the same book run concurrently (one succeeds, the
\* others get Conflict).
C1_AtMostOneActivePerBook ==
    \A b \in Catalog : Cardinality(ActiveBorrowsOfBook(b)) <= 1

\* C2: of two return calls that target the same Active record, run one after
\* the other or concurrently, exactly one succeeds and the other gets
\* NotFound: no two responses of return_book are successes for the same row.
C2_OneReturnPerRecord ==
    \A p, q \in Procs :
        (/\ p # q
         /\ req[p].op = "return" /\ req[p].result = "ok"
         /\ req[q].op = "return" /\ req[q].result = "ok")
        => req[p].row # req[q].row

\* C3: after any sequence of borrows and returns the review gate lets
\* (user, book) through exactly when the ledger has at least one record,
\* Active or Returned, one or several, for that pair.  Stated for the
\* ledgers a sequence of borrows and returns produces: the pair has at most
\* one record that is not returned.
C3_ReviewAllowedIffBorrowed ==
    \A u \in Users, b \in Catalog :
        Cardinality({r \in BorrowsOfUserBook(u, b) : r.return_date = NULL}) <= 1
        => ((CreateReviewCheck(u, b) = "allowed") <=> (BorrowsOfUserBook(u, b) # {}))

\* C4: is_available is true exactly when the book has no Active record, and
\* active_borrows is the number of Active records, which is 0 or 1; the book
\* is unavailable right after a successful borrow of it and available right
\* after the successful return of that borrow.
C4_AvailabilityMatchesLedger ==
    /\ [](\A b \in Catalog :
            LET a == CheckBookAvailability(b)
                active == {r \in borrows : r.book_id = b /\ r.status = ACTIVE}
            IN  /\ a.is_available <=> (active = {})
                /\ a.active_borrows = Cardinality(active)
                /\ a.active_borrows \in {0, 1})
    /\ [][\A p \in Procs :
            (req[p].op = "borrow" /\ req[p].result = "none" /\ req'[p].result = "created")
            => ~CheckBookAvailability(req[p].book_id).is_available']_vars
    /\ [][\A p \in Procs :
            (req[p].op = "return" /\ req[p].result = "none" /\ req'[p].result = "ok")
            => CheckBookAvailability(req[p].book_id).is_available']_vars

\* the outcomes with which a handler ends without success
ErrorResults == {"not_found", "conflict", "server_error"}

C6_LoanPeriodPositive ==
    \A r \in borrows : r.due_date - r.borrow_date >= 1

\* C7: the history summary of every user satisfies
\* total_borrows = active_borrows + returned_borrows and
\* overdue_borrows <= active_borrows.
C7_HistoryCountsConsistent ==
    \A u \in Users :
        LET h == GetBorrowHistory(u)
        IN  /\ h.total_borrows = h.active_borrows + h.returned_borrows
            /\ h.overdue_borrows <= h.active_borrows

\* C8: while a book has an Active record no borrow of it succeeds (the
\* availability check that finds an Active record ends the call with
\* Conflict, or with a server error when the query fails), and a successful
\* borrow adds a record with a fresh id.
C8_NoBorrowWhileActive ==
    /\ [][\A p \in Procs :
            (/\ req[p].op = "borrow" /\ req[p].pc = "check_available"
             /\ req'[p] # req[p]
             /\ ActiveBorrowsOfBook(req[p].book_id) # {})
            => req'[p].result \in {"conflict", "server_error"}]_vars
    /\ [][\A p \in Procs :
            (req[p].op = "borrow" /\ req'[p].result = "created" /\ req[p].result = "none")
            => /\ ActiveBorrowsOfBook(req[p].book_id) = {}
               /\ \A r \in borrows : r.id # req'[p].row]_vars

C10_ReturnedIsTerminal ==
    /\ [](\A r \in borrows :
            /\ r.status = ACTIVE => r.return_date = NULL
            /\ r.status = RETURNED => r.return_date # NULL)
    /\ [][\A r \in borrows : r.return_date # NULL =>
            \A n \in borrows' : n.id = r.id => n = r]_vars

\* C11: the ledger is append-only.  A record that exists keeps existing in
\* every later state, whatever operation runs (borrow, return, the deletion
\* of the book it references), so total_borrows of a book never decreases.
C11_LedgerAppendOnly ==
    /\ [][\A r \in borrows : \E n \in borrows' : n.id = r.id]_vars
    /\ [][\A b \in Catalog :
            CheckBookAvailability(b).total_borrows' >= CheckBookAvailability(b).total_borrows]_vars


\* C12: a return succeeds only if the same user holds a record of the book
\* that is not yet returned; a return by a user who has no such record
\* (never borrowed, already returned, or the book is held by someone else)
\* ends with NotFound and writes nothing; and no return changes a record of
\* another user.
C12_ReturnNeedsOwnActive ==
    /\ [][\A p \in Procs :
            (req[p].op = "return" /\ req[p].result = "none" /\ req'[p].result = "ok")
            => \E r \in borrows :
                  /\ r.id = req'[p].row
                  /\ r.user_id = req[p].user_id /\ r.book_id = req[p].book_id
                  /\ r.return_date = NULL]_vars
    /\ [][\A p \in Procs :
            (/\ req[p].pc = "done" /\ req'[p].op = "return" /\ req'[p] # req[p]
             /\ \A r \in BorrowsOfUserBook(req'[p].user_id, req'[p].book_id) :
                    r.return_date # NULL)
            => (req'[p].result = "not_found" /\ borrows' = borrows)]_vars
    /\ [][\A p \in Procs :
            (req'[p].op = "return" /\ req'[p] # req[p])
            => \A r \in borrows : r.user_id # req'[p].user_id => r \in borrows']_vars


\* C13: a borrow of a book_id that has no row in the books table ends at its
\* first step, with NotFound when the lookup answers and with the server
\* error of C15 when the lookup itself fails, and writes nothing, whatever
\* the ledger holds; no record references a book that does not exist.
C13_UnknownBookNotFound ==
    /\ [](\A r \in borrows : r.book_id \in books)
    /\ [][\A p \in Procs :
            (/\ req[p].pc = "done" /\ req'[p].op = "borrow" /\ req'[p] # req[p]
             /\ req'[p].book_id \notin books)
            => /\ req'[p].result \in {"not_found", "server_error"} /\ req'[p].row = NoRow
               /\ borrows' = borrows /\ next_id' = next_id]_vars

\* C13 witness: a borrow of an unknown book was answered NotFound while the
\* ledger holds records
C13_Witness ==
    \E p \in Procs :
        /\ req[p].op = "borrow" /\ req[p].result = "not_found"
        /\ req[p].book_id \notin books /\ borrows # {}


\* C14: the availability check of a book_id that has no row in the books
\* table ends with NotFound instead of a summary, and it succeeds for every
\* existing book.
C14_AvailabilityUnknownBookNotFound ==
    \A b \in BookIds :
        AvailabilityResponse(b).status = IF b \in books THEN "ok" ELSE "not_found"


\* C15: a borrow whose lookup of the book or of the borrows fails is never
\* answered NotFound (a borrow gets NotFound only when the book has no row);
\* it ends with the server error of the failure, and a borrow that ends
\* with a server error writes nothing.
C15_LookupFailureIsNotNotFound ==
    /\ [][\A p \in Procs :
            (req'[p].op = "borrow" /\ req'[p] # req[p] /\ req'[p].result = "not_found")
            => req'[p].book_id \notin books]_vars
    /\ [][\A p \in Procs :
            (req'[p].op = "borrow" /\ req'[p] # req[p] /\ req'[p].result = "server_error")
            => (borrows' = borrows /\ next_id' = next_id)]_vars

\* C15 witness: the lookup of a borrow of an existing book has failed (no
\* record was ever created, so nothing else can have raised)
C15_Witness ==
    \E p \in Procs :
        /\ req[p].op = "borrow" /\ req[p].result = "server_error"
        /\ req[p].book_id \in books /\ next_id = 1


\* C16: the history of a user lists exactly the records of that user, most
\* recent borrow_date first, and the order of two records is the same before
\* and after one of them is returned.
C16_HistoryOrderStable ==
    /\ [](\A u \in Users : \A h \in BorrowHistoryOrders(u) :
            /\ {h[i] : i \in DOMAIN h} = {r \in borrows : r.user_id = u}
            /\ \A i, j \in DOMAIN h : i < j => h[i].borrow_date >= h[j].borrow_date)
    /\ [][\A p \in Procs :
            (req[p].op = "return" /\ req[p].result = "none" /\ req'[p].result = "ok")
            => \A h \in BorrowHistoryOrders(req[p].user_id) :
               \A n \in BorrowHistoryOrders(req[p].user_id)' :
               \A x, y \in {r.id : r \in borrows} :
                  ComesBefore(h, x, y) => ~ComesBefore(n, y, x)]_vars


\* C17: a successful return changes nothing but the return_date and the
\* status of the record it returns, which is a record of the caller and the
\* book: every record keeps its id, user_id, book_id, borrow_date and
\* due_date, every other record is unchanged and no record is added; a
\* successful borrow adds its one record and changes no existing record.
C17_ReturnAndBorrowFrame ==
    /\ [][\A p \in Procs :
            (req[p].op = "return" /\ req[p].result = "none" /\ req'[p].result = "ok")
            => /\ {r.id : r \in borrows'} = {r.id : r \in borrows}
               /\ \A r \in borrows : r.id # req'[p].row => r \in borrows'
               /\ \A r \in borrows : r.id = req'[p].row =>
                     /\ r.user_id = req[p].user_id /\ r.book_id = req[p].book_id
                     /\ \E n \in borrows' :
                           n = [r EXCEPT !.return_date = n.return_date, !.status = n.status]]_vars
    /\ [][\A p \in Procs :
            (req[p].op = "borrow" /\ req[p].result = "none" /\ req'[p].result = "created")
            => /\ borrows \subseteq borrows'
               /\ {r.id : r \in borrows' \ borrows} = {req'[p].row}]_vars

\* C17 witness: a return has succeeded while the ledger holds another record
C17_Witness ==
    \E p \in Procs :
        /\ req[p].op = "return" /\ req[p].result = "ok"
        /\ \E r, o \in borrows : r.id = req[p].row /\ o.id # r.id


\* C18: right after logout, whatever the state it was called in, the context
\* exposes user = null, isAuthenticated = false and isAdmin = false, and
\* localStorage holds neither access_token nor refresh_token.
C18_LogoutClearsSession ==
    event = "logout" =>
        /\ value.user = NullUser
        /\ ~value.isAuthenticated
        /\ ~value.isAdmin
        /\ access_token = NoToken /\ refresh_token = NoToken


\* C19: when AuthProvider mounts, loadUser calls getCurrentUser if and only
\* if localStorage holds an access_token; if the call rejects, both tokens
\* are removed and user is left as it is (null); if it resolves, user is the
\* user it returned.
C19_LoadUserOnMount ==
    /\ [][(loadUser = "start" /\ loadUser' # "start")
            => (loadUser' = "fetch" <=> access_token # NoToken)]_vars
    /\ [][(loadUser' = "fetch") => (loadUser \in {"start", "fetch"})]_vars
    /\ [][(loadUser = "fetch" /\ loadUser' = "rejected")
            => /\ access_token' = NoToken /\ refresh_token' = NoToken
               /\ user' = user /\ value'.user = user]_vars
    /\ [][(loadUser = "fetch" /\ loadUser' = "resolved")
            => (user' \in Roles /\ value'.user = user')]_vars

\* C19 witness: the current-user fetch of loadUser has just rejected, and
\* user is null
C19_Witness ==
    loadUser = "rejected" /\ event = "loadUser" /\ user = NullUser

\* C20: after AuthProvider mounts loading becomes false, with or without a
\* token and whether the current-user fetch resolves or rejects, and once
\* false it stays false through every later login, register and logout.
C20_LoadingEndsAndStaysFalse ==
    /\ <>(loading = FALSE /\ value.loading = FALSE)
    /\ [][loading = FALSE => loading' = FALSE]_vars
    /\ [][value.loading = FALSE => value'.loading = FALSE]_vars

\* C20 witness: loading is false after a login has resolved and a logout
C20_Witness ==
    loading = FALSE /\ value.loading = FALSE /\ login = "resolved" /\ event = "logout"


\* C21: a login whose token request resolves stores access_token and
\* refresh_token and then fetches the current user; when that resolves user
\* is the returned user and isAuthenticated is true.  A login whose token
\* request rejects ends rejected, writes no token and leaves user as it is.
C21_LoginStoresTokensThenUser ==
    /\ [][(login = "token" /\ login' = "fetch")
            => (access_token' = IssuedToken /\ refresh_token' = IssuedToken)]_vars
    /\ [][(login = "fetch" /\ login' = "resolved")
            => /\ user' \in Roles
               /\ value'.user = user' /\ value'.isAuthenticated]_vars
    /\ [][(login = "token" /\ login' # "token") => login' \in {"fetch", "rejected"}]_vars
    /\ [][(login = "token" /\ login' = "rejected")
            => /\ access_token' \in {access_token, NoToken}
               /\ refresh_token' \in {refresh_token, NoToken}
               /\ user' = user /\ value' = value]_vars

\* C21 witness: a login has just succeeded
C21_Witness ==
    login = "resolved" /\ event = "login" /\ access_token = IssuedToken /\ user \in Roles

\* C28: when login rejects, at the token request or at the current-user
\* fetch, in a provider that exposed no session (user null, isAuthenticated
\* false), then user is still null, isAuthenticated is still false, and no
\* token that this login stored is left in localStorage.
C28_FailedLoginLeavesNoSession ==
    [][(/\ login \in {"token", "fetch"} /\ login' = "rejected"
        /\ user = NullUser /\ ~value.isAuthenticated)
        => /\ user' = NullUser
           /\ ~value'.isAuthenticated
           /\ access_token' # IssuedToken /\ refresh_token' # IssuedToken]_vars


\* ---------------------------------------------------------------------
\* ProtectedRoute (App.tsx): what a guarded route renders from the context
\* value of the provider's last render
\* ---------------------------------------------------------------------
LOADING == "Loading..."
CHILDREN == "children"
TO_LOGIN == "/login"
TO_DASHBOARD == "/dashboard"

\* mutant of ProtectedRoute: the authentication test comes before the
\* loading test
ProtectedRouteAuthFirst(ctx, adminOnly) ==
    IF ~ctx.isAuthenticated THEN TO_LOGIN
    ELSE IF ctx.loading THEN LOADING
    ELSE IF adminOnly /\ ~ctx.isAdmin THEN TO_DASHBOARD
    ELSE CHILDREN

ProtectedRoute(ctx, adminOnly) ==
    IF ctx.loading THEN LOADING
    ELSE IF ~ctx.isAuthenticated THEN TO_LOGIN
    ELSE IF adminOnly /\ ~ctx.isAdmin THEN TO_DASHBOARD
    ELSE CHILDREN

\* C22: a guarded route renders its page only when loading is false and
\* isAuthenticated is true (and isAdmin is true on an adminOnly route), and
\* then the provider really holds a user or a token; while loading it renders
\* 'Loading...' and does not redirect; when not authenticated it redirects to
\* /login; an authenticated non-admin on an adminOnly route is redirected to
\* /dashboard.
C22_ProtectedRouteGuards ==
    \A adminOnly \in BOOLEAN :
        LET out == ProtectedRoute(value, adminOnly) IN
        /\ out = CHILDREN =>
              /\ ~value.loading /\ value.isAuthenticated
              /\ adminOnly => value.isAdmin
              /\ ~loading
              /\ user # NullUser \/ access_token # NoToken
        /\ value.loading => out = LOADING
        /\ (~value.loading /\ ~value.isAuthenticated) => out = TO_LOGIN
        /\ (~value.loading /\ value.isAuthenticated /\ adminOnly /\ ~value.isAdmin)
              => out = TO_DASHBOARD

\* a signed-in non-admin is on screen: the page on a plain route, the
\* redirect to /dashboard on an adminOnly route
C22_Witness ==
    /\ user = "user" /\ ~value.loading
    /\ ProtectedRoute(value, FALSE) = CHILDREN
    /\ ProtectedRoute(value, TRUE) = TO_DASHBOARD

\* C30: the response interceptor, on every response with status 401, removes
\* both tokens, sets the location to /login and still rejects the error to
\* the caller; on any other failure it leaves the location alone, and the
\* tokens too (loadUser's own catch removes them afterwards), and only
\* rejects.
C30_InterceptorOn401 ==
    /\ [][rejection' = UNAUTHORIZED
            => /\ access_token' = NoToken /\ refresh_token' = NoToken
               /\ href' = "/login"
               /\ "rejected" \in {loadUser', login', register'}]_vars
    /\ [][(rejection' # NoFailure /\ rejection' # UNAUTHORIZED)
            => /\ href' = href
               /\ event' # "loadUser"
                     => (access_token' = access_token /\ refresh_token' = refresh_token)
               /\ "rejected" \in {loadUser', login', register'}]_vars
    /\ [][rejection' = NoFailure => href' = href]_vars

\* a request of login was answered 401: no token is left, the location is
\* /login and the login has rejected
C30_Witness ==
    /\ rejection = UNAUTHORIZED /\ event = "login" /\ href = "/login"
    /\ access_token = NoToken /\ refresh_token = NoToken /\ login = "rejected"


\* ---------------------------------------------------------------------
\* The Register page (pages/Register.tsx): formData, error and loading of
\* the component, the register() call it has in flight and where
\* navigate() has sent the router
\* ---------------------------------------------------------------------
provider == <<access_token, refresh_token, user, loading, value,
              loadUser, login, register, event, href, rejection>>

\* characters a password is made of: what /[A-Z]/, /[a-z]/ and /[0-9]/ match,
\* and one character none of them matches
UpperCase == {"A"}
LowerCase == {"a"}
Digits == {"1"}

\* formData.password.length < 8
MinPasswordLength == 8

\* n times the character c
RECURSIVE Repeat(_, _)
Repeat(c, n) ==
    IF n = 0 THEN <<>> ELSE <<c>> \o Repeat(c, n - 1)

\* the values typed into the password fields
Passwords ==
    { <<>>,
      <<"a", "1">>,
      <<"A", "a", "1">> \o Repeat("a", 4),
      <<"A", "a", "1">> \o Repeat("a", 5),
      <<"a", "1">> \o Repeat("a", 6),
      <<"A", "1">> \o Repeat("A", 6),
      <<"A", "a">> \o Repeat("a", 6),
      <<"#", "#">> \o Repeat("#", 6),
      <<"A", "a", "1">> \o Repeat("#", 6) }

Emails == {"", "a@b.c"}
Usernames == {"", "reader"}

NoError == ""
ALL_REQUIRED == "All required fields must be filled"
TOO_SHORT == "Password must be at least 8 characters long"
NO_UPPERCASE == "Password must contain at least one uppercase letter"
NO_LOWERCASE == "Password must contain at least one lowercase letter"
NO_NUMBER == "Password must contain at least one number"
NO_MATCH == "Passwords do not match"
REGISTRATION_FAILED == "Registration failed. Please try again."
ServerDetail == "Username already exists"

\* regex.test(password)
Test(class, password) ==
    \E i \in 1..Len(password) : password[i] \in class

\* mutant of validateForm: the uppercase rule is tested before the length
validateFormUppercaseFirst(formData) ==
    IF formData.email = "" \/ formData.username = "" \/ formData.password = <<>>
        THEN ALL_REQUIRED
    ELSE IF ~Test(UpperCase, formData.password) THEN NO_UPPERCASE
    ELSE IF Len(formData.password) < MinPasswordLength THEN TOO_SHORT
    ELSE IF ~Test(LowerCase, formData.password) THEN NO_LOWERCASE
    ELSE IF ~Test(Digits, formData.password) THEN NO_NUMBER
    ELSE IF formData.password # formData.confirmPassword THEN NO_MATCH
    ELSE NoError

\* validateForm: the error it sets, NoError when it returns true
validateForm(formData) ==
    IF formData.email = "" \/ formData.username = "" \/ formData.password = <<>>
        THEN ALL_REQUIRED
    ELSE IF Len(formData.password) < MinPasswordLength THEN TOO_SHORT
    ELSE IF ~Test(UpperCase, formData.password) THEN NO_UPPERCASE
    ELSE IF ~Test(LowerCase, formData.password) THEN NO_LOWERCASE
    ELSE IF ~Test(Digits, formData.password) THEN NO_NUMBER
    ELSE IF formData.password # formData.confirmPassword THEN NO_MATCH
    ELSE NoError

RegisterInit ==
    /\ LedgerInit /\ NoProvider
    /\ BookDetailPage = Unmounted
    /\ BooksPage = Unmounted
    /\ RegisterPage = [mounted |-> TRUE,
                       formData |-> [email |-> "", username |-> "", password |-> <<>>,
                                     confirmPassword |-> <<>>],
                       error |-> NoError,
                       loading |-> FALSE,
                       call |-> "none",
                       location |-> "/register",
                       last |-> "mount"]

\* handleChange: the inputs are disabled while loading
handleChange(name, v) ==
    /\ RegisterPage.mounted /\ ~RegisterPage.loading
    /\ RegisterPage.location = "/register"
    /\ RegisterPage.formData[name] # v
    /\ RegisterPage' = [RegisterPage EXCEPT !.formData[name] = v, !.last = "change"]
    /\ UNCHANGED <<ledger, provider, BookDetailPage, BooksPage>>

\* handleSubmit up to its await: the button is disabled while loading
handleSubmit ==
    /\ RegisterPage.mounted /\ ~RegisterPage.loading
    /\ RegisterPage.location = "/register"
    /\ LET e == validateForm(RegisterPage.formData) IN
       RegisterPage' = IF e # NoError
                       THEN [RegisterPage EXCEPT !.error = e, !.last = "submit"]
                       ELSE [RegisterPage EXCEPT !.error = NoError,
                                                 !.loading = TRUE,
                                                 !.call = "sent",
                                                 !.last = "submit"]
    /\ UNCHANGED <<ledger, provider, BookDetailPage, BooksPage>>

\* await register(...) resolves: navigate('/login'), finally setLoading(false)
handleSubmitResolved ==
    /\ RegisterPage.mounted /\ RegisterPage.call = "sent"
    /\ RegisterPage' = [RegisterPage EXCEPT !.call = "resolved",
                                            !.location = "/login",
                                            !.loading = FALSE,
                                            !.last = "resolved"]
    /\ UNCHANGED <<ledger, provider, BookDetailPage, BooksPage>>

\* await register(...) rejects: setError(detail or the default message),
\* finally setLoading(false)
handleSubmitRejected(detail) ==
    /\ RegisterPage.mounted /\ RegisterPage.call = "sent"
    /\ RegisterPage' = [RegisterPage EXCEPT !.call = "rejected",
                                            !.error = detail,
                                            !.loading = FALSE,
                                            !.last = "rejected"]
    /\ UNCHANGED <<ledger, provider, BookDetailPage, BooksPage>>

RegisterNext ==
    \/ \E v \in Emails : handleChange("email", v)
    \/ \E v \in Usernames : handleChange("username", v)
    \/ \E v \in Passwords : handleChange("password", v)
    \/ \E v \in Passwords : handleChange("confirmPassword", v)
    \/ handleSubmit
    \/ handleSubmitResolved
    \/ \E detail \in {ServerDetail, REGISTRATION_FAILED} : handleSubmitRejected(detail)

RegisterSpec == RegisterInit /\ [][RegisterNext]_vars

\* the rules of the form in the order they are stated, each with its message
RegisterRules(f) ==
    << [ok |-> f.email # "" /\ f.username # "" /\ f.password # <<>>, msg |-> ALL_REQUIRED],
       [ok |-> Len(f.password) >= 8, msg |-> TOO_SHORT],
       [ok |-> \E i \in DOMAIN f.password : f.password[i] \in UpperCase, msg |-> NO_UPPERCASE],
       [ok |-> \E i \in DOMAIN f.password : f.password[i] \in LowerCase, msg |-> NO_LOWERCASE],
       [ok |-> \E i \in DOMAIN f.password : f.password[i] \in Digits, msg |-> NO_NUMBER],
       [ok |-> f.password = f.confirmPassword, msg |-> NO_MATCH] >>

\* C23: register() is called only if every validation rule passes;
\* otherwise a submit sends no request and shows the message of the first
\* failing rule in the stated order; after a successful registration the
\* page navigates to /login.
C23_RegisterValidation ==
    /\ [][RegisterPage'.last = "submit" =>
            LET f == RegisterPage.formData
                rules == RegisterRules(f)
                failing == {k \in DOMAIN rules : ~rules[k].ok}
            IN  /\ (RegisterPage'.call = "sent") <=> (failing = {})
                /\ failing # {} =>
                      /\ RegisterPage'.call = RegisterPage.call
                      /\ \E k \in failing :
                            /\ \A j \in failing : k <= j
                            /\ RegisterPage'.error = rules[k].msg]_vars
    /\ [][(RegisterPage.call # "sent" /\ RegisterPage'.call = "sent")
            => RegisterPage'.last = "submit"]_vars
    /\ [][RegisterPage'.last = "resolved" => RegisterPage'.location = "/login"]_vars
    /\ [][RegisterPage'.location # RegisterPage.location
            => RegisterPage'.last = "resolved"]_vars

\* a submit of a short password without uppercase letter was refused with
\* the message of the length rule
C23_Witness ==
    /\ RegisterPage.mounted /\ RegisterPage.last = "submit"
    /\ RegisterPage.formData.password = <<"a", "1">>
    /\ RegisterPage.error = TOO_SHORT /\ RegisterPage.call = "none"


\* ---------------------------------------------------------------------
\* The BookDetail page (pages/BookDetail.tsx).  The component stays mounted
\* when the route id changes; every loadBookData call runs to its end and
\* writes the component's state after each of its awaits.
\* ---------------------------------------------------------------------
\* loadBookData calls that route changes may have in flight together
MaxLoads == 2

\* Borrow / Return handlers the model can hold in flight
Handlers == {1, 2}

\* the books a route id names
RouteIds == {1, 2}

\* no value loaded: useState(null)
null == 0

\* useState<BookAvailability | null>(null)
NoAvailability == [book_id |-> null, is_available |-> FALSE]

LOAD_FAILED == "Failed to load book details"
BORROW_FAILED == "Failed to borrow book"
RETURN_FAILED == "Failed to return book"
REVIEW_FAILED == "Failed to submit review"

\* loadBookData up to its first await: setLoading(true); setError('')
LoadStarted(P) ==
    [P EXCEPT !.loading = TRUE, !.error = ""]

\* loadBookData for bookId, the continuation after its await number at has
\* resolved with data: 1 the three parallel requests, 2
\* checkUserHasBorrowedBook, 3 getMyBorrows, 4 getRecommendations (which
\* ends the call either way: finally setLoading(false))
LoadResolved(P, bookId, at, data) ==
    CASE at = 1 -> [P EXCEPT !.book = bookId,
                             !.reviews = bookId,
                             !.availability = [book_id |-> bookId, is_available |-> data]]
      [] at = 2 -> [P EXCEPT !.userHasBorrowed = data, !.hasBorrowedOf = bookId]
      [] at = 3 -> [P EXCEPT !.userActiveBorrow = IF data THEN bookId ELSE null]
      [] at = 4 -> [P EXCEPT !.loading = FALSE]

\* loadBookData, one of its awaits 1..3 has rejected: the catch and finally
LoadRejected(P) ==
    [P EXCEPT !.error = LOAD_FAILED, !.loading = FALSE]

\* the awaits of loadBookData
Awaits == 1..4

\* the loadBookData calls of the effect that are in flight: how many of them
\* are for a book and wait at an await
NoLoads == [k \in RouteIds \X Awaits |-> 0]

RECURSIVE Sum(_, _)
Sum(f, S) ==
    IF S = {} THEN 0
    ELSE LET k == CHOOSE x \in S : TRUE IN f[k] + Sum(f, S \ {k})

InFlight(loads) ==
    Sum(loads, DOMAIN loads)

BookDetailInit ==
    /\ LedgerInit /\ NoProvider
    /\ RegisterPage = Unmounted
    /\ BooksPage = Unmounted
    /\ \E id \in RouteIds :
        BookDetailPage =
            [mounted |-> TRUE,
             id |-> id,
             book |-> null,
             reviews |-> null,
             availability |-> NoAvailability,
             userHasBorrowed |-> FALSE,
             hasBorrowedOf |-> null,
             userActiveBorrow |-> null,
             loading |-> TRUE,
             error |-> "",
             showReviewForm |-> FALSE,
             submittingReview |-> FALSE,
             reviewError |-> "",
             createReview |-> null,
             borrowing |-> FALSE,
             loads |-> [NoLoads EXCEPT ![id, 1] = 1],
             handlers |-> [h \in Handlers |-> [call |-> "none", bookId |-> null, at |-> 0]]]

\* what the component renders
Screen(P) ==
    IF P.loading THEN "Loading book details..."
    ELSE IF P.error # "" /\ P.book = null THEN "error"
    ELSE IF P.book = null THEN "Book not found"
    ELSE "detail"

\* the availability-section of the detail screen
AvailabilitySection(P) ==
    IF P.availability = NoAvailability THEN "none"
    ELSE IF P.userActiveBorrow # null THEN "Return Book"
    ELSE IF P.availability.is_available THEN "Borrow Book"
    ELSE "Currently Borrowed"

\* mutant of ButtonDisabled: the buttons are never disabled
ButtonNeverDisabled(P) ==
    FALSE

\* disabled={borrowing}
ButtonDisabled(P) ==
    P.borrowing

\* the review form is on screen
ReviewFormDisplayed(P) ==
    Screen(P) = "detail" /\ P.showReviewForm

\* the route id changes while the component stays mounted (a similar-book
\* card, or the browser's back and forward): the effect on [id] calls
\* loadBookData
RouteChange(id) ==
    /\ BookDetailPage.mounted /\ id # BookDetailPage.id
    /\ InFlight(BookDetailPage.loads) < MaxLoads
    /\ BookDetailPage' =
          [LoadStarted(BookDetailPage) EXCEPT
              !.id = id,
              !.loads[id, 1] = @ + 1]
    /\ UNCHANGED <<ledger, provider, RegisterPage, BooksPage>>

\* an await of a loadBookData call of the effect resolves
EffectLoadResolves(bookId, at, data) ==
    /\ BookDetailPage.mounted /\ BookDetailPage.loads[bookId, at] > 0
    /\ BookDetailPage' =
          [LoadResolved(BookDetailPage, bookId, at, data) EXCEPT
              !.loads = IF at = 4
                        THEN [@ EXCEPT ![bookId, at] = @ - 1]
                        ELSE [@ EXCEPT ![bookId, at] = @ - 1, ![bookId, at + 1] = @ + 1]]
    /\ UNCHANGED <<ledger, provider, RegisterPage, BooksPage>>

\* an await of a loadBookData call of the effect rejects
EffectLoadRejects(bookId, at) ==
    /\ BookDetailPage.mounted /\ BookDetailPage.loads[bookId, at] > 0
    /\ at \in 1..3
    /\ BookDetailPage' =
          [LoadRejected(BookDetailPage) EXCEPT !.loads[bookId, at] = @ - 1]
    /\ UNCHANGED <<ledger, provider, RegisterPage, BooksPage>>

\* 'Write a Review'
OpenReviewForm ==
    /\ BookDetailPage.mounted /\ Screen(BookDetailPage) = "detail"
    /\ BookDetailPage.userHasBorrowed /\ ~BookDetailPage.showReviewForm
    /\ BookDetailPage' = [BookDetailPage EXCEPT !.showReviewForm = TRUE]
    /\ UNCHANGED <<ledger, provider, RegisterPage, BooksPage>>

\* 'Cancel'
CancelReviewForm ==
    /\ BookDetailPage.mounted /\ ReviewFormDisplayed(BookDetailPage)
    /\ BookDetailPage' = [BookDetailPage EXCEPT !.showReviewForm = FALSE,
                                                !.reviewError = ""]
    /\ UNCHANGED <<ledger, provider, RegisterPage, BooksPage>>

\* handleSubmitReview up to its first await: createReview({book_id: id})
handleSubmitReview ==
    /\ BookDetailPage.mounted /\ ReviewFormDisplayed(BookDetailPage)
    /\ ~BookDetailPage.submittingReview
    /\ BookDetailPage' = [BookDetailPage EXCEPT !.submittingReview = TRUE,
                                                !.reviewError = "",
                                                !.createReview = BookDetailPage.id]
    /\ UNCHANGED <<ledger, provider, RegisterPage, BooksPage>>

\* handleSubmitReview after createReview and the reloads of the reviews:
\* the form is reset and closed, or the catch sets reviewError
handleSubmitReviewSettles(ok) ==
    /\ BookDetailPage.mounted /\ BookDetailPage.createReview # null
    /\ BookDetailPage' = [BookDetailPage EXCEPT
          !.submittingReview = FALSE,
          !.createReview = null,
          !.reviewError = IF ok THEN BookDetailPage.reviewError ELSE REVIEW_FAILED,
          !.showReviewForm = IF ok THEN FALSE ELSE BookDetailPage.showReviewForm]
    /\ UNCHANGED <<ledger, provider, RegisterPage, BooksPage>>

\* handleBorrow / handleReturn up to the first await: the button clicked is
\* the one the availability-section offers
handleBorrowOrReturn(h) ==
    /\ BookDetailPage.mounted /\ Screen(BookDetailPage) = "detail"
    /\ AvailabilitySection(BookDetailPage) \in {"Borrow Book", "Return Book"}
    /\ ~ButtonDisabled(BookDetailPage)
    /\ BookDetailPage.handlers[h].call = "none"
    /\ \A g \in Handlers : g < h => BookDetailPage.handlers[g].call # "none"
    /\ BookDetailPage' = [BookDetailPage EXCEPT
          !.borrowing = TRUE,
          !.error = "",
          !.handlers[h] =
              [call |-> IF AvailabilitySection(BookDetailPage) = "Borrow Book"
                        THEN "borrowBook" ELSE "returnBook",
               bookId |-> BookDetailPage.id,
               at |-> 0]]
    /\ UNCHANGED <<ledger, provider, RegisterPage, BooksPage>>

\* borrowBook / returnBook resolves: await loadBookData() of the render the
\* click was made in
handlerRequestResolves(h) ==
    /\ BookDetailPage.mounted
    /\ BookDetailPage.handlers[h].call # "none" /\ BookDetailPage.handlers[h].at = 0
    /\ BookDetailPage' = [LoadStarted(BookDetailPage) EXCEPT !.handlers[h].at = 1]
    /\ UNCHANGED <<ledger, provider, RegisterPage, BooksPage>>

\* borrowBook / returnBook rejects: the catch and finally
handlerRequestRejects(h) ==
    /\ BookDetailPage.mounted
    /\ BookDetailPage.handlers[h].call # "none" /\ BookDetailPage.handlers[h].at = 0
    /\ BookDetailPage' = [BookDetailPage EXCEPT
          !.error = IF BookDetailPage.handlers[h].call = "borrowBook"
                    THEN BORROW_FAILED ELSE RETURN_FAILED,
          !.borrowing = FALSE,
          !.handlers[h] = [call |-> "none", bookId |-> null, at |-> 0]]
    /\ UNCHANGED <<ledger, provider, RegisterPage, BooksPage>>

\* an await of the handler's loadBookData resolves; after the last one the
\* handler's finally runs
handlerReloadResolves(h, data) ==
    /\ BookDetailPage.mounted
    /\ BookDetailPage.handlers[h].at \in 1..4
    /\ LET r == BookDetailPage.handlers[h]
           P == LoadResolved(BookDetailPage, r.bookId, r.at, data)
       IN  BookDetailPage' =
              IF r.at = 4
              THEN [P EXCEPT !.borrowing = FALSE,
                             !.handlers[h] = [call |-> "none", bookId |-> null, at |-> 0]]
              ELSE [P EXCEPT !.handlers[h].at = r.at + 1]
    /\ UNCHANGED <<ledger, provider, RegisterPage, BooksPage>>

\* an await of the handler's loadBookData rejects: loadBookData catches it
\* and returns, and the handler's finally runs
handlerReloadRejects(h) ==
    /\ BookDetailPage.mounted
    /\ BookDetailPage.handlers[h].at \in 1..3
    /\ BookDetailPage' =
          [LoadRejected(BookDetailPage) EXCEPT
              !.borrowing = FALSE,
              !.handlers[h] = [call |-> "none", bookId |-> null, at |-> 0]]
    /\ UNCHANGED <<ledger, provider, RegisterPage, BooksPage>>

\* the requests of the effect's loadBookData calls settle
EffectLoadSettles ==
    \/ \E bookId \in RouteIds, at \in Awaits, data \in BOOLEAN :
          EffectLoadResolves(bookId, at, data)
    \/ \E bookId \in RouteIds, at \in Awaits : EffectLoadRejects(bookId, at)

\* the requests of handleBorrow and handleReturn settle
HandlerSettles ==
    \/ \E h \in Handlers : handlerRequestResolves(h)
    \/ \E h \in Handlers : handlerRequestRejects(h)
    \/ \E h \in Handlers, data \in BOOLEAN : handlerReloadResolves(h, data)
    \/ \E h \in Handlers : handlerReloadRejects(h)

\* the page without its review form
BookDetailNext ==
    \/ \E id \in RouteIds : RouteChange(id)
    \/ \E h \in Handlers : handleBorrowOrReturn(h)
    \/ EffectLoadSettles
    \/ HandlerSettles

BookDetailSpec == BookDetailInit /\ [][BookDetailNext]_vars

\* every request of handleBorrow and handleReturn is answered or fails
BookDetailLive == BookDetailSpec /\ WF_vars(HandlerSettles)

\* the page with its review form
ReviewNext ==
    \/ BookDetailNext
    \/ OpenReviewForm
    \/ CancelReviewForm
    \/ handleSubmitReview
    \/ \E ok \in BOOLEAN : handleSubmitReviewSettles(ok)

ReviewSpec == BookDetailInit /\ [][ReviewNext]_vars


\* every request of the page has settled
Settled(P) ==
    /\ InFlight(P.loads) = 0
    /\ \A h \in Handlers : P.handlers[h].call = "none"
    /\ P.createReview = null

\* the handlers with a borrowBook or returnBook call, or its reload, in flight
Busy(P) ==
    {h \in Handlers : P.handlers[h].call # "none"}

\* C24: on the detail screen the Return button is offered only when the
\* loaded userActiveBorrow is a borrow of the book on display, the Borrow
\* button only when there is none and the loaded availability of that book
\* says is_available, and otherwise the section shows 'Currently Borrowed';
\* a click on Borrow calls borrowBook with the route id and then reloads.
C24_ButtonsFollowLoadedData ==
    /\ [](  (BookDetailPage.mounted /\ Screen(BookDetailPage) = "detail"
             /\ BookDetailPage.availability # NoAvailability)
         => LET P == BookDetailPage
                offered == AvailabilitySection(P)
            IN  /\ offered = "Return Book" => P.userActiveBorrow = P.book
                /\ offered = "Borrow Book" =>
                      /\ P.userActiveBorrow = null
                      /\ P.availability.book_id = P.book
                      /\ P.availability.is_available
                /\ offered \in {"Return Book", "Borrow Book", "Currently Borrowed"} )
    /\ [][\A h \in Handlers :
            (BookDetailPage.handlers[h].call = "none"
             /\ BookDetailPage'.handlers[h].call = "borrowBook")
            => BookDetailPage'.handlers[h].bookId = BookDetailPage.id]_vars

\* C25: the review form is on screen, and a createReview request is sent,
\* only while userHasBorrowed is true and was loaded for the book of the
\* route id.
C25_ReviewFormOnlyForBorrowedBook ==
    /\ [](  (BookDetailPage.mounted /\ ReviewFormDisplayed(BookDetailPage))
         => /\ BookDetailPage.userHasBorrowed
            /\ BookDetailPage.hasBorrowedOf = BookDetailPage.id )
    /\ [][(BookDetailPage.createReview = null /\ BookDetailPage'.createReview # null)
            => /\ BookDetailPage.userHasBorrowed
               /\ BookDetailPage.hasBorrowedOf = BookDetailPage'.createReview]_vars

\* C26: once every request has settled, and no load has failed since the
\* last one started, the book, reviews, availability, userHasBorrowed and
\* userActiveBorrow on display are those of the route id.
C26_SettledDataIsOfRoute ==
    (BookDetailPage.mounted /\ Settled(BookDetailPage) /\ BookDetailPage.error = "")
    => /\ BookDetailPage.book = BookDetailPage.id
       /\ BookDetailPage.reviews = BookDetailPage.id
       /\ BookDetailPage.availability.book_id = BookDetailPage.id
       /\ BookDetailPage.hasBorrowedOf = BookDetailPage.id
       /\ BookDetailPage.userActiveBorrow \in {null, BookDetailPage.id}

\* C29: every click on Borrow or Return is followed by borrowing = false;
\* borrowing is true exactly while a handler is in flight, the buttons are
\* then disabled and at most one handler is in flight; a borrowBook or
\* returnBook request that fails sets the error and leaves the loaded data
\* as it is.
C29_BorrowingEndsOneAtATime ==
    /\ (BookDetailPage.borrowing ~> ~BookDetailPage.borrowing)
    /\ [](  /\ Cardinality(Busy(BookDetailPage)) <= 1
            /\ BookDetailPage.borrowing <=> Busy(BookDetailPage) # {}
            /\ BookDetailPage.borrowing => ButtonDisabled(BookDetailPage) )
    /\ [][\A h \in Handlers :
            (BookDetailPage.handlers[h].at = 0
             /\ BookDetailPage.handlers[h].call # "none"
             /\ BookDetailPage'.handlers[h].call = "none")
            => /\ BookDetailPage'.error \in {BORROW_FAILED, RETURN_FAILED}
               /\ ~BookDetailPage'.borrowing
               /\ BookDetailPage'.book = BookDetailPage.book
               /\ BookDetailPage'.reviews = BookDetailPage.reviews
               /\ BookDetailPage'.availability = BookDetailPage.availability
               /\ BookDetailPage'.userHasBorrowed = BookDetailPage.userHasBorrowed
               /\ BookDetailPage'.userActiveBorrow = BookDetailPage.userActiveBorrow]_vars

\* a borrow request has failed: the error is shown above the book that was
\* loaded before, and borrowing is false again
C29_Witness ==
    /\ BookDetailPage.mounted /\ BookDetailPage.error = BORROW_FAILED
    /\ ~BookDetailPage.borrowing /\ Screen(BookDetailPage) = "detail"
    /\ BookDetailPage.book = BookDetailPage.id


\* ---------------------------------------------------------------------
\* The Books list (pages/Books.tsx) of a user who is not an admin: the
\* loaded userBorrows and bookAvailability, borrowingBookId, and the
\* handleBorrowBook / handleReturnBook calls in flight
\* ---------------------------------------------------------------------
\* handleBorrowBook / handleReturnBook calls that may be in flight together
MaxRequests == 3

\* the books of the list
ListedBooks == {1, 2}

\* what bookAvailability.get(book.id) gives
Availabilities == {"available", "unavailable", "undefined"}

\* the calls a handler makes: the request, loadUserBorrows,
\* loadBooksAvailability
HandlerCalls == {"borrowBook", "returnBook"}
HandlerAwaits == 1..3

NoRequests == [k \in HandlerCalls \X ListedBooks \X HandlerAwaits |-> 0]

BooksInit ==
    /\ LedgerInit /\ NoProvider
    /\ RegisterPage = Unmounted /\ BookDetailPage = Unmounted
    /\ \E borrowed \in SUBSET ListedBooks, avail \in [ListedBooks -> {"available", "unavailable"}] :
        BooksPage = [mounted |-> TRUE,
                     userBorrows |-> borrowed,
                     bookAvailability |-> avail,
                     borrowingBookId |-> null,
                     error |-> "",
                     requests |-> NoRequests]

\* the button the book-borrow-actions section renders for a book
ActionButton(P, bookId) ==
    IF bookId \in P.userBorrows THEN "returnBook"
    ELSE IF P.bookAvailability[bookId] = "available" THEN "borrowBook"
    ELSE "none"

\* const isProcessing = borrowingBookId === book.id
isProcessing(P, bookId) ==
    P.borrowingBookId = bookId

\* the handler calls in flight for a book
RequestsFor(P, bookId) ==
    Sum(P.requests, HandlerCalls \X {bookId} \X HandlerAwaits)

\* handleBorrowBook(bookId) / handleReturnBook(bookId) up to the first
\* await, from a click on the button of the book
handleBorrowBook(bookId) ==
    /\ BooksPage.mounted
    /\ ActionButton(BooksPage, bookId) # "none"
    /\ ~isProcessing(BooksPage, bookId)
    /\ Sum(BooksPage.requests, DOMAIN BooksPage.requests) < MaxRequests
    /\ BooksPage' = [BooksPage EXCEPT
          !.borrowingBookId = bookId,
          !.error = "",
          !.requests[ActionButton(BooksPage, bookId), bookId, 1] = @ + 1]
    /\ UNCHANGED <<ledger, provider, RegisterPage, BookDetailPage>>

\* borrowBook / returnBook rejects: the catch and finally
handlerRejected(call, bookId) ==
    /\ BooksPage.mounted /\ BooksPage.requests[call, bookId, 1] > 0
    /\ BooksPage' = [BooksPage EXCEPT
          !.error = IF call = "borrowBook" THEN BORROW_FAILED ELSE RETURN_FAILED,
          !.borrowingBookId = null,
          !.requests[call, bookId, 1] = @ - 1]
    /\ UNCHANGED <<ledger, provider, RegisterPage, BookDetailPage>>

\* borrowBook / returnBook resolves: await loadUserBorrows()
handlerResolved(call, bookId) ==
    /\ BooksPage.mounted /\ BooksPage.requests[call, bookId, 1] > 0
    /\ BooksPage' = [BooksPage EXCEPT
          !.requests = [@ EXCEPT ![call, bookId, 1] = @ - 1, ![call, bookId, 2] = @ + 1]]
    /\ UNCHANGED <<ledger, provider, RegisterPage, BookDetailPage>>

\* loadUserBorrows of a handler returns: setUserBorrows(borrows) when the
\* request resolved, nothing when it was caught; await loadBooksAvailability()
loadUserBorrows(call, bookId, ok, borrowed) ==
    /\ BooksPage.mounted /\ BooksPage.requests[call, bookId, 2] > 0
    /\ BooksPage' = [BooksPage EXCEPT
          !.userBorrows = IF ok THEN borrowed ELSE @,
          !.requests = [@ EXCEPT ![call, bookId, 2] = @ - 1, ![call, bookId, 3] = @ + 1]]
    /\ UNCHANGED <<ledger, provider, RegisterPage, BookDetailPage>>

\* loadBooksAvailability of a handler returns: setBookAvailability(the new
\* map, without the books whose request failed); then setError('') and the
\* handler's finally
loadBooksAvailability(call, bookId, avail) ==
    /\ BooksPage.mounted /\ BooksPage.requests[call, bookId, 3] > 0
    /\ BooksPage' = [BooksPage EXCEPT
          !.bookAvailability = avail,
          !.error = "",
          !.borrowingBookId = null,
          !.requests[call, bookId, 3] = @ - 1]
    /\ UNCHANGED <<ledger, provider, RegisterPage, BookDetailPage>>

BooksNext ==
    \/ \E bookId \in ListedBooks : handleBorrowBook(bookId)
    \/ \E call \in HandlerCalls, bookId \in ListedBooks : handlerRejected(call, bookId)
    \/ \E call \in HandlerCalls, bookId \in ListedBooks : handlerResolved(call, bookId)
    \/ \E call \in HandlerCalls, bookId \in ListedBooks, ok \in BOOLEAN,
          borrowed \in SUBSET ListedBooks :
          loadUserBorrows(call, bookId, ok, borrowed)
    \/ \E call \in HandlerCalls, bookId \in ListedBooks,
          avail \in [ListedBooks -> Availabilities] :
          loadBooksAvailability(call, bookId, avail)

BooksSpec == BooksInit /\ [][BooksNext]_vars

\* C27: while a borrow or return call for a book, or its follow-up reloads,
\* is in flight, the action button of that book is disabled, and so at most
\* one such call for the book is in flight, whatever is started on other
\* books meanwhile.
C27_ButtonDisabledWhileInFlight ==
    BooksPage.mounted =>
        \A bookId \in ListedBooks :
            /\ RequestsFor(BooksPage, bookId) <= 1
            /\ (RequestsFor(BooksPage, bookId) > 0
                /\ ActionButton(BooksPage, bookId) # "none")
                  => isProcessing(BooksPage, bookId)

=============================================================================
